---- MODULE Spec2Model ----
(***************************************************************************)
(* Model of internal/fsext/fileutil.go: SkipHidden, NewFastGlobWalker,     *)
(* shouldSkip and GlobWithDoubleStar, the concurrent, gitignore-aware,     *)
(* recency-ranked glob search.                                             *)
(*                                                                         *)
(* Paths, names and patterns are strings modelled as sequences of          *)
(* one-character strings, so that prefix tests, splitting on the           *)
(* separator and glob matching are computed on the characters.             *)
(***************************************************************************)
EXTENDS Integers, Sequences, FiniteSets, TLC

\* ------------------------------------------------------------------------
\* Bounds of the model
\* ------------------------------------------------------------------------

\* number of fastwalk worker goroutines
NumWorkers == 2

\* the limit argument ranges over MinLimit..MaxLimit
MaxLimit == 3

\* a path given to SkipHidden on its own has up to MaxSegs segments
MaxSegs == 3

\* ------------------------------------------------------------------------
\* Strings
\* ------------------------------------------------------------------------

\* os.PathSeparator
Sep == "/"

Dot == <<".">>

\* strings.HasPrefix(s, ".")
HasDotPrefix(s) == Len(s) > 0 /\ s[1] = "."

\* index of the last separator of s, 0 when there is none
LastSep(s) ==
  IF \E i \in 1..Len(s) : s[i] = Sep
  THEN CHOOSE i \in 1..Len(s) : s[i] = Sep /\ \A j \in (i+1)..Len(s) : s[j] # Sep
  ELSE 0

\* s without its trailing separators
RECURSIVE TrimTrailingSep(_)
TrimTrailingSep(s) ==
  IF Len(s) > 0 /\ s[Len(s)] = Sep THEN TrimTrailingSep(SubSeq(s, 1, Len(s) - 1)) ELSE s

\* filepath.Base: the last element of the path, trailing separators removed;
\* "." for the empty path, the separator for a path of separators only
Base(path) ==
  IF Len(path) = 0 THEN Dot
  ELSE LET t == TrimTrailingSep(path)
       IN  IF Len(t) = 0 THEN <<Sep>>
           ELSE SubSeq(t, LastSep(t) + 1, Len(t))

\* strings.Split(s, sep): the substrings between separators, empty ones kept
RECURSIVE Split(_)
Split(s) ==
  IF \A i \in 1..Len(s) : s[i] # Sep THEN <<s>>
  ELSE LET i == CHOOSE k \in 1..Len(s) : s[k] = Sep /\ \A j \in 1..(k-1) : s[j] # Sep
       IN  <<SubSeq(s, 1, i - 1)>> \o Split(SubSeq(s, i + 1, Len(s)))

\* dir + separator + name, as fastwalk joins a directory and an entry name
Join(dir, name) == dir \o <<Sep>> \o name

Range(s) == {s[i] : i \in 1..Len(s)}

\* strings.Join(ss, sep) of a non-empty list: a path from its segments
RECURSIVE JoinAll(_)
JoinAll(ss) ==
  IF Len(ss) = 1 THEN ss[1] ELSE ss[1] \o <<Sep>> \o JoinAll(Tail(ss))

\* ------------------------------------------------------------------------
\* SkipHidden
\* ------------------------------------------------------------------------

commonIgnoredDirs ==
  { <<".","c","r","u","s","h">>,
    <<"n","o","d","e","_","m","o","d","u","l","e","s">>,
    <<"v","e","n","d","o","r">>,
    <<"d","i","s","t">>,
    <<"b","u","i","l","d">>,
    <<"t","a","r","g","e","t">>,
    <<".","g","i","t">>,
    <<".","i","d","e","a">>,
    <<".","v","s","c","o","d","e">>,
    <<"_","_","p","y","c","a","c","h","e","_","_">>,
    <<"b","i","n">>,
    <<"o","b","j">>,
    <<"o","u","t">>,
    <<"c","o","v","e","r","a","g","e">>,
    <<"t","m","p">>,
    <<"t","e","m","p">>,
    <<"l","o","g","s">>,
    <<"g","e","n","e","r","a","t","e","d">>,
    <<"b","o","w","e","r","_","c","o","m","p","o","n","e","n","t","s">>,
    <<"j","s","p","m","_","p","a","c","k","a","g","e","s">>  }

\* variant: a dot-prefixed segment anywhere in the path makes it hidden
SkipHiddenAnySegment(path) ==
  \E part \in Range(Split(path)) :
    (part # Dot /\ HasDotPrefix(part)) \/ part \in commonIgnoredDirs

SkipHidden(path) ==
  LET base == Base(path)
  IN  IF base # Dot /\ HasDotPrefix(base) THEN TRUE
      ELSE \E part \in Range(Split(path)) : part \in commonIgnoredDirs

\* ------------------------------------------------------------------------
\* The filesystem the search runs against (unchanged during a search)
\* ------------------------------------------------------------------------

Txt == <<".","t","x","t">>

Proj == <<"p","r","o","j">>
NoDir == <<"n","o","d","i","r">>
Ro == <<"r","o">>
Flt == <<"f","l","t">>
Sc == <<"s","c">>
Tmp == <<"t","m","p">>
TmpW == Join(Tmp, <<"w">>)
DotCfg == <<".","c","f","g">>

DotGitignore == <<".","g","i","t","i","g","n","o","r","e">>
DotGit == <<".","g","i","t">>
DotX == <<".","x">>
SecTxt == <<"s","e","c">> \o Txt

\* fault: how access to the entry fails
\*   "readdir": listing the directory fails; "info": reading the metadata fails;
\*   "read": reading the file's content fails
File(path, t, fault) == [path |-> path, isDir |-> FALSE, modTime |-> t, fault |-> fault]
Dir(path, fault) == [path |-> path, isDir |-> TRUE, modTime |-> 0, fault |-> fault]

FS ==
  { \* a project tree, every entry accessible
    Dir(Proj, "none"),
    File(Join(Proj, DotGitignore), 1, "none"),
    File(Join(Proj, <<"a">> \o Txt), 1, "none"),
    File(Join(Proj, <<"b">> \o Txt), 2, "none"),
    File(Join(Proj, SecTxt), 3, "none"),
    Dir(Join(Proj, DotGit), "none"),
    File(Join(Join(Proj, DotGit), <<"c">> \o Txt), 3, "none"),
    Dir(Join(Proj, DotX), "none"),
    File(Join(Join(Proj, DotX), <<"y">> \o Txt), 3, "none"),
    Dir(Join(Proj, <<"s","1">>), "none"),
    File(Join(Join(Proj, <<"s","1">>), <<"d">> \o Txt), 3, "none"),
    File(Join(Join(Proj, <<"s","1">>), <<"e">> \o Txt), 1, "none"),
    Dir(Join(Proj, <<"s","2">>), "none"),
    File(Join(Join(Proj, <<"s","2">>), <<"f">> \o Txt), 4, "none"),
    File(Join(Join(Proj, <<"s","2">>), <<"g",".","m","d">>), 2, "none"),
    \* a tree with entries that cannot be accessed
    Dir(Flt, "none"),
    File(Join(Flt, DotGitignore), 1, "read"),
    File(Join(Flt, <<"a">> \o Txt), 1, "none"),
    File(Join(Flt, <<"h">> \o Txt), 2, "info"),
    Dir(Join(Flt, <<"l","k">>), "readdir"),
    File(Join(Join(Flt, <<"l","k">>), <<"k">> \o Txt), 2, "none"),
    Dir(Join(Flt, <<"s">>), "none"),
    File(Join(Join(Flt, <<"s">>), <<"m">> \o Txt), 3, "none"),
    \* a directory that cannot be listed
    Dir(Ro, "readdir"),
    File(Join(Ro, <<"a">> \o Txt), 1, "none"),
    \* a root with two text files and a .git directory, without .gitignore
    Dir(Sc, "none"),
    File(Join(Sc, <<"a">> \o Txt), 1, "none"),
    File(Join(Sc, <<"b">> \o Txt), 2, "none"),
    Dir(Join(Sc, DotGit), "none"),
    File(Join(Join(Sc, DotGit), <<"c">> \o Txt), 3, "none"),
    \* roots whose own path has a segment named like an ignored directory,
    \* or a last segment starting with a dot
    Dir(TmpW, "none"),
    File(Join(TmpW, <<"a">> \o Txt), 1, "none"),
    Dir(DotCfg, "none"),
    File(Join(DotCfg, <<"a">> \o Txt), 1, "none") }

\* the search paths tried; NoDir does not exist
SearchPaths == {Proj, Flt, Ro, NoDir, Sc, TmpW, DotCfg}

Paths == {e.path : e \in FS}

Entry(path) == CHOOSE e \in FS : e.path = path

\* os.Stat(path) succeeds
Exists(path) == path \in Paths

\* the directory part of a path ("" when it has no separator)
Parent(path) == SubSeq(path, 1, LastSep(path) - 1)

\* the lines of the .gitignore files of the filesystem
GitignoreLines(path) ==
  IF path = Join(Proj, DotGitignore) THEN {SecTxt}
  ELSE IF path = Join(Flt, DotGitignore) THEN {<<"s">>}
  ELSE {}

\* ------------------------------------------------------------------------
\* Ordering of a directory listing: fastwalk.SortFilesFirst
\* ------------------------------------------------------------------------

\* the characters used, in byte order
Alphabet ==
  <<".", "/", "1", "2", "[", "]", "_", "a", "b", "c", "d", "e", "f", "g", "h",
    "i", "j", "k", "l", "m", "n", "o", "p", "r", "s", "t", "u", "v", "w", "x", "y">>

Ord(c) == CHOOSE i \in 1..Len(Alphabet) : Alphabet[i] = c

\* s < t in the lexical order of strings
RECURSIVE StrLess(_, _)
StrLess(s, t) ==
  IF Len(t) = 0 THEN FALSE
  ELSE IF Len(s) = 0 THEN TRUE
  ELSE IF s[1] # t[1] THEN Ord(s[1]) < Ord(t[1])
  ELSE StrLess(Tail(s), Tail(t))

\* a set as a sequence, in any order
RECURSIVE SetToSeq(_)
SetToSeq(S) ==
  IF S = {} THEN <<>>
  ELSE LET x == CHOOSE x \in S : TRUE IN <<x>> \o SetToSeq(S \ {x})

\* regular files before directories, each group by name
FilesFirstLess(e1, e2) ==
  IF e1.isDir # e2.isDir THEN e2.isDir ELSE StrLess(e1.path, e2.path)

\* os.ReadDir(dir) ordered by Sort: fastwalk.SortFilesFirst; the paths of the entries
ReadDirSorted(dir) ==
  LET es == SortSeq(SetToSeq({e \in FS : Parent(e.path) = dir}), FilesFirstLess)
  IN  [i \in 1..Len(es) |-> es[i].path]

\* ------------------------------------------------------------------------
\* filepath.Rel, doublestar.Match, gitignore.MatchesPath
\* ------------------------------------------------------------------------

IsPrefix(s, t) == Len(s) <= Len(t) /\ SubSeq(t, 1, Len(s)) = s

\* filepath.Rel(base, target) for a target at or below base; anything else is
\* reported as a failure
Rel(base, target) ==
  IF target = base THEN [err |-> FALSE, rel |-> Dot]
  ELSE IF IsPrefix(base \o <<Sep>>, target)
       THEN [err |-> FALSE, rel |-> SubSeq(target, Len(base) + 2, Len(target))]
       ELSE [err |-> TRUE, rel |-> <<>>]

\* one path segment against one pattern segment; "*" matches any run of characters
RECURSIVE SegMatch(_, _)
SegMatch(p, s) ==
  IF Len(p) = 0 THEN Len(s) = 0
  ELSE IF p[1] = "*"
       THEN \E k \in 0..Len(s) : SegMatch(Tail(p), SubSeq(s, k + 1, Len(s)))
       ELSE Len(s) > 0 /\ p[1] = s[1] /\ SegMatch(Tail(p), Tail(s))

\* segments against pattern segments; a "**" segment matches any number of segments
RECURSIVE SegsMatch(_, _)
SegsMatch(ps, ss) ==
  IF Len(ps) = 0 THEN Len(ss) = 0
  ELSE IF ps[1] = <<"*","*">>
       THEN \E k \in 0..Len(ss) : SegsMatch(Tail(ps), SubSeq(ss, k + 1, Len(ss)))
       ELSE Len(ss) > 0 /\ SegMatch(ps[1], ss[1]) /\ SegsMatch(Tail(ps), Tail(ss))

\* a character class that is never closed
BadPattern(p) == "[" \in Range(p) /\ "]" \notin Range(p)

\* doublestar.Match(pattern, name): (matched, err); err is ErrBadPattern
Match(p, name) ==
  IF BadPattern(p) THEN [matched |-> FALSE, err |-> TRUE]
  ELSE [matched |-> SegsMatch(Split(p), Split(name)), err |-> FALSE]

StarTxt == <<"*">> \o Txt
DoubleStarTxt == <<"*","*","/","*">> \o Txt
Malformed == <<"[","a">>

Patterns == {StarTxt, DoubleStarTxt, Malformed}

\* the value of walker.gitignore: nil, or the compiled lines
Nil == [present |-> FALSE, lines |-> {}]

\* gitignore.MatchesPath(relPath) for lines that are plain names: some segment
\* of the path is one of the names
MatchesPath(gi, rel) == \E part \in Range(Split(rel)) : part \in gi.lines

\* ------------------------------------------------------------------------
\* State
\* ------------------------------------------------------------------------

VARIABLES
  pattern,     \* argument: the glob pattern
  searchPath,  \* argument: the root of the search
  limit,       \* argument: the result limit
  gitignore,   \* walker.gitignore
  phase,       \* where GlobWithDoubleStar is: "start", "walk" (inside Walk),
               \* "stop" (Walk is returning), "done" (returned)
  queue,       \* directories handed to the walk and not yet taken by a worker
  wk,          \* per worker: where it is in walking its directory
  mu,          \* the mutex: 0 when free, else the worker holding it
  walkErr,     \* whether fastwalk.Walk returns an error
  matches,     \* the candidate list
  collected,   \* the candidate list as it was when ranking started
  recorded,    \* the number of appends made by the callbacks of this search
  results,     \* returned paths
  truncated,   \* returned flag
  err,         \* whether an error is returned
  run,         \* the number of the search running, when it is repeated
  first,       \* what the first search returned, once it is repeated
  segs,        \* the segments of the path a call of SkipHidden on its own is given
  skipped      \* what that call returned

vars == <<pattern, searchPath, limit, gitignore, phase, queue, wk, mu, walkErr,
          matches, collected, recorded, results, truncated, err, run, first,
          segs, skipped>>

args == <<pattern, searchPath, limit, run, first, segs, skipped>>

Workers == 1..NumWorkers

Limits == (-1)..MaxLimit

Idle == [pc |-> "idle", dir |-> <<>>, list |-> <<>>, cur |-> <<>>]

\* a worker that has ended, or was never started
Exited == [pc |-> "exited", dir |-> <<>>, list |-> <<>>, cur |-> <<>>]

NoResult == [paths |-> <<>>, truncated |-> FALSE, err |-> FALSE]

\* SkipHidden has not been called on its own
NotCalled == [called |-> FALSE, value |-> FALSE]

\* access of this kind to the entry fails
Faulty(path, kind) == Entry(path).fault = kind

\* ------------------------------------------------------------------------
\* NewFastGlobWalker, shouldSkip and the decisions of GlobWithDoubleStar
\* ------------------------------------------------------------------------

\* ignore.CompileIgnoreFile(path): (lines, err); it fails when the file
\* cannot be read
CompileIgnoreFile(path) == [err |-> Faulty(path, "read"), lines |-> GitignoreLines(path)]

\* variant: the result of a failed compile is kept
NewFastGlobWalkerKeepingFailed(root) ==
  LET gitignorePath == Join(root, DotGitignore)
  IN  IF Exists(gitignorePath)
      THEN [present |-> TRUE, lines |-> CompileIgnoreFile(gitignorePath).lines]
      ELSE Nil

\* the gitignore field of NewFastGlobWalker(root)
NewFastGlobWalker(root) ==
  LET gitignorePath == Join(root, DotGitignore)
  IN  IF Exists(gitignorePath) /\ ~CompileIgnoreFile(gitignorePath).err
      THEN [present |-> TRUE, lines |-> CompileIgnoreFile(gitignorePath).lines]
      ELSE Nil

shouldSkip(path, rootPath, gi) ==
  IF SkipHidden(path) THEN TRUE
  ELSE IF gi.present
       THEN LET r == Rel(rootPath, path) IN ~r.err /\ MatchesPath(gi, r.rel)
       ELSE FALSE

\* lines 148-156: the pattern matches the path relative to the search path,
\* or the path itself when it cannot be made relative
PatternMatches(pat, root, path) ==
  LET r == Rel(root, path)
      relPath == IF r.err THEN path ELSE r.rel
      m == Match(pat, relPath)
  IN  ~m.err /\ m.matched

\* What the callback and the walk compute from the request and an entry does
\* not depend on the state of the walk. It is evaluated once for every
\* request and entry of the model and looked up by the actions.

\* the values walker.gitignore can have
Walkers == {Nil} \cup {NewFastGlobWalker(root) : root \in SearchPaths}

\* w.shouldSkip(path) at lines 132 and 141
shouldSkipAt ==
  [p \in Paths, root \in SearchPaths, gi \in Walkers |-> shouldSkip(p, root, gi)]

\* the outcome of lines 148-156 for the entry at a path
PatternMatchesAt ==
  [pat \in Patterns, root \in SearchPaths, p \in Paths |-> PatternMatches(pat, root, p)]

\* the listing fastwalk makes of a directory
ReadDirAt ==
  [dir \in {e.path : e \in {x \in FS : x.isDir}} |-> ReadDirSorted(dir)]

\* variant: the callback returns the error it is called with
CallbackPropagatesErr == TRUE

\* lines 126-128: whether the callback hands an entry's error back to Walk
\* (it returns nil)
CallbackReturnsErr == FALSE

\* variant: the walk is told to stop at limit candidates
ReachedThresholdAtLimit(lim, n) == lim > 0 /\ n >= lim

\* variant: the test for a positive limit is left out
ReachedThresholdAnyLimit(lim, n) == n >= lim * 2

\* variant: only the append that makes the count equal to the threshold stops
ReachedThresholdExactly(lim, n) == lim > 0 /\ n = lim * 2

\* line 167: the walk is told to stop
ReachedThreshold(lim, n) == lim > 0 /\ n >= lim * 2

\* variant: Before instead of After
lessOldestFirst(a, b) == a.ModTime < b.ModTime

\* line 177: the order sort.Slice is given
less(a, b) == a.ModTime > b.ModTime

\* variant: cut as soon as limit is reached
IsTruncatedAtLimit(lim, n) == lim > 0 /\ n >= lim

\* variant: cut only beyond the walk's threshold
IsTruncatedAtThreshold(lim, n) == lim > 0 /\ n > lim * 2

\* line 181: the result is cut
IsTruncated(lim, n) == lim > 0 /\ n > lim

Remove(s, i) == SubSeq(s, 1, i - 1) \o SubSeq(s, i + 1, Len(s))

\* variant: the list is left as the walk built it
SortSkipped(s) == {s}

\* sort.Slice(matches, less) is not stable: every arrangement of the list in
\* which no element is less than one before it
RECURSIVE SortOutcomes(_)
SortOutcomes(s) ==
  IF Len(s) = 0 THEN {<<>>}
  ELSE UNION { {<<s[i]>> \o t : t \in SortOutcomes(Remove(s, i))} :
               i \in {k \in 1..Len(s) : \A j \in 1..Len(s) : ~less(s[j], s[k])} }

\* variant: the list is not re-sliced
CutForgotten(s, lim) == s

\* lines 182, 186-189
Cut(s, lim) == IF IsTruncated(lim, Len(s)) THEN SubSeq(s, 1, lim) ELSE s

PathsOf(s) == [i \in 1..Len(s) |-> s[i].Path]

\* ------------------------------------------------------------------------
\* Actions
\* ------------------------------------------------------------------------

(***************************************************************************)
(* fastwalk.Walk (github.com/charlievieth/fastwalk), as used at line 125:  *)
(*  - the root is stat'ed first; a failure is returned before any callback *)
(*    runs;                                                                *)
(*  - a worker takes a directory, calls the callback on it (SkipDir leaves *)
(*    it), lists it, calls the callback on each non-directory entry in     *)
(*    SortFilesFirst order and enqueues each directory; a listing that     *)
(*    fails is reported by calling the callback on the directory with the  *)
(*    error;                                                               *)
(*  - SkipAll from a callback ends that worker's directory and makes Walk  *)
(*    return nil; the other workers finish the directory they are in, and  *)
(*    may still take a directory already handed over, before Walk, which   *)
(*    waits for all of them, returns.                                      *)
(* The directories waiting in Walk's stack and in its channels are one     *)
(* set, queue: a worker may take any of them, which covers every order     *)
(* the channels can produce.                                               *)
(***************************************************************************)

Init ==
  /\ pattern \in Patterns
  /\ searchPath \in SearchPaths
  /\ limit \in Limits
  /\ gitignore = Nil
  /\ phase = "start"
  /\ queue = {}
  /\ wk = [w \in Workers |-> Idle]
  /\ mu = 0
  /\ walkErr = FALSE
  /\ matches = <<>>
  /\ collected = <<>>
  /\ recorded = 0
  /\ results = <<>>
  /\ truncated = FALSE
  /\ err = FALSE
  /\ run = 1
  /\ first = NoResult
  /\ segs = <<>>
  /\ skipped = NotCalled

\* lines 115-125 and fastwalk.Walk's start: the walker is built and the root
\* is stat'ed; a root that cannot be stat'ed makes Walk return the error
\* before any worker runs, otherwise the root is handed to the workers
Start ==
  /\ phase = "start"
  /\ gitignore' = NewFastGlobWalker(searchPath)
  /\ IF Exists(searchPath)
     THEN /\ phase' = "walk"
          /\ queue' = {searchPath}
          /\ walkErr' = FALSE
          /\ wk' = wk
     ELSE /\ phase' = "stop"
          /\ queue' = {}
          /\ walkErr' = TRUE
          /\ wk' = [w \in Workers |-> Exited]
  /\ UNCHANGED <<args, mu, matches, collected, recorded, results, truncated, err>>

\* a worker takes a directory; the callback is first called on the directory
\* itself. After Walk has begun to return, a worker may still take a directory
\* that was already handed over.
TakeWork(w) ==
  /\ phase \in {"walk", "stop"}
  /\ wk[w].pc = "idle"
  /\ \E d \in queue :
       /\ queue' = queue \ {d}
       /\ wk' = [wk EXCEPT ![w] = [pc |-> "lock1", dir |-> d, list |-> <<>>, cur |-> d]]
  /\ UNCHANGED <<args, gitignore, phase, mu, walkErr, matches, collected, recorded, results, truncated, err>>

\* lines 131 and 140: mu.Lock() before shouldSkip
Lock1(w) ==
  /\ wk[w].pc = "lock1"
  /\ mu = 0
  /\ mu' = w
  /\ wk' = [wk EXCEPT ![w].pc = "check"]
  /\ UNCHANGED <<args, gitignore, phase, queue, walkErr, matches, collected, recorded, results, truncated, err>>

\* variant: the callback returns for a skipped file without unlocking
CheckKeepingLockOnSkip(w) ==
  /\ wk[w].pc = "check"
  /\ mu = w
  /\ LET path == wk[w].cur
         skip == shouldSkipAt[path, searchPath, gitignore]
     IN  IF Entry(path).isDir
         THEN /\ mu' = 0
              /\ wk' = [wk EXCEPT ![w] = IF skip THEN Idle ELSE [@ EXCEPT !.pc = "readdir"]]
         ELSE /\ mu' = IF skip THEN mu ELSE 0
              /\ wk' = [wk EXCEPT ![w].pc =
                         IF skip \/ ~PatternMatchesAt[pattern, searchPath, path]
                                 \/ Faulty(path, "info")
                         THEN "next" ELSE "lock2"]
  /\ UNCHANGED <<args, gitignore, phase, queue, walkErr, matches, collected, recorded, results, truncated, err>>

\* variant: a directory is listed whatever shouldSkip says
CheckWithoutDirSkip(w) ==
  /\ wk[w].pc = "check"
  /\ mu = w
  /\ mu' = 0
  /\ LET path == wk[w].cur
         skip == shouldSkipAt[path, searchPath, gitignore]
     IN  IF Entry(path).isDir
         THEN wk' = [wk EXCEPT ![w].pc = "readdir"]
         ELSE wk' = [wk EXCEPT ![w].pc =
                       IF skip \/ ~PatternMatchesAt[pattern, searchPath, path]
                               \/ Faulty(path, "info")
                       THEN "next" ELSE "lock2"]
  /\ UNCHANGED <<args, gitignore, phase, queue, walkErr, matches, collected, recorded, results, truncated, err>>

\* variant: a file is not tested with shouldSkip
CheckWithoutFileSkip(w) ==
  /\ wk[w].pc = "check"
  /\ mu = w
  /\ mu' = 0
  /\ LET path == wk[w].cur
         skip == shouldSkipAt[path, searchPath, gitignore]
     IN  IF Entry(path).isDir
         THEN wk' = [wk EXCEPT ![w] = IF skip THEN Idle ELSE [@ EXCEPT !.pc = "readdir"]]
         ELSE wk' = [wk EXCEPT ![w].pc =
                       IF ~PatternMatchesAt[pattern, searchPath, path] \/ Faulty(path, "info")
                       THEN "next" ELSE "lock2"]
  /\ UNCHANGED <<args, gitignore, phase, queue, walkErr, matches, collected, recorded, results, truncated, err>>

\* lines 130-161: shouldSkip under the lock, the unlock, and for a file that is
\* not skipped the pattern match and d.Info()
Check(w) ==
  /\ wk[w].pc = "check"
  /\ mu = w
  /\ mu' = 0
  /\ LET path == wk[w].cur
         skip == shouldSkipAt[path, searchPath, gitignore]
     IN  IF Entry(path).isDir
         THEN \* SkipDir ends the walk of this directory; nil goes on to list it
              wk' = [wk EXCEPT ![w] = IF skip THEN Idle ELSE [@ EXCEPT !.pc = "readdir"]]
         ELSE wk' = [wk EXCEPT ![w].pc =
                       IF skip \/ ~PatternMatchesAt[pattern, searchPath, path]
                               \/ Faulty(path, "info")
                       THEN "next" ELSE "lock2"]
  /\ UNCHANGED <<args, gitignore, phase, queue, walkErr, matches, collected, recorded, results, truncated, err>>

\* the directory is listed, files first; a listing that fails is reported to
\* the callback, which returns nil (lines 126-128), and the directory is left
ReadDir(w) ==
  /\ wk[w].pc = "readdir"
  /\ IF Faulty(wk[w].dir, "readdir")
     THEN /\ wk' = [wk EXCEPT ![w] = Idle]
          /\ walkErr' = (walkErr \/ CallbackReturnsErr)
          /\ phase' = IF CallbackReturnsErr THEN "stop" ELSE phase
     ELSE /\ wk' = [wk EXCEPT ![w] = [@ EXCEPT !.pc = "next", !.list = ReadDirAt[wk[w].dir]]]
          /\ walkErr' = walkErr
          /\ phase' = phase
  /\ UNCHANGED <<args, gitignore, queue, mu, matches, collected, recorded, results, truncated, err>>

\* the next entry of the listing: a directory is enqueued, the callback is
\* called on a file; at the end of the listing the worker is free again
NextEntry(w) ==
  /\ wk[w].pc = "next"
  /\ IF Len(wk[w].list) = 0
     THEN /\ wk' = [wk EXCEPT ![w] = Idle]
          /\ queue' = queue
     ELSE LET e == Head(wk[w].list)
          IN  IF Entry(e).isDir
              THEN /\ queue' = queue \cup {e}
                   /\ wk' = [wk EXCEPT ![w].list = Tail(@)]
              ELSE /\ queue' = queue
                   /\ wk' = [wk EXCEPT ![w].list = Tail(@), ![w].cur = e, ![w].pc = "lock1"]
  /\ UNCHANGED <<args, gitignore, phase, mu, walkErr, matches, collected, recorded, results, truncated, err>>

\* variant: the append is entered without waiting for the mutex
Lock2WithoutWaiting(w) ==
  /\ wk[w].pc = "lock2"
  /\ mu' = w
  /\ wk' = [wk EXCEPT ![w].pc = "append"]
  /\ UNCHANGED <<args, gitignore, phase, queue, walkErr, matches, collected, recorded, results, truncated, err>>

\* line 163: mu.Lock() before the append
Lock2(w) ==
  /\ wk[w].pc = "lock2"
  /\ mu = 0
  /\ mu' = w
  /\ wk' = [wk EXCEPT ![w].pc = "append"]
  /\ UNCHANGED <<args, gitignore, phase, queue, walkErr, matches, collected, recorded, results, truncated, err>>

\* lines 164-170: the append, the threshold test and the deferred unlock;
\* SkipAll ends this worker's directory and makes Walk return
AppendMatch(w) ==
  /\ wk[w].pc = "append"
  /\ mu = w
  /\ mu' = 0
  /\ matches' = Append(matches, [Path |-> wk[w].cur, ModTime |-> Entry(wk[w].cur).modTime])
  /\ IF ReachedThreshold(limit, Len(matches'))
     THEN /\ wk' = [wk EXCEPT ![w] = Idle]
          /\ phase' = "stop"
     ELSE /\ wk' = [wk EXCEPT ![w].pc = "next"]
          /\ phase' = phase
  /\ recorded' = recorded + 1
  /\ UNCHANGED <<args, gitignore, queue, walkErr, collected, results, truncated, err>>

\* nothing is left to walk: Walk returns nil
WalkDone ==
  /\ phase = "walk"
  /\ queue = {}
  /\ \A w \in Workers : wk[w].pc = "idle"
  /\ phase' = "stop"
  /\ UNCHANGED <<args, gitignore, queue, wk, mu, walkErr, matches, collected, recorded, results, truncated, err>>

\* Walk is returning: a free worker ends
Exit(w) ==
  /\ phase = "stop"
  /\ wk[w].pc = "idle"
  /\ wk' = [wk EXCEPT ![w].pc = "exited"]
  /\ UNCHANGED <<args, gitignore, phase, queue, mu, walkErr, matches, collected, recorded, results, truncated, err>>

\* variant: Walk returns without waiting for its workers
WalkReturnedWithoutWaiting == TRUE

\* line 125: fastwalk.Walk returns when all its workers have ended
WalkReturned == \A w \in Workers : wk[w].pc = "exited"

\* lines 172-190, after Walk has waited for its workers and returned: its
\* error is returned with no paths, otherwise the sort, the cut and the paths
Finish ==
  /\ phase = "stop"
  /\ WalkReturned
  /\ collected' = matches
  /\ IF walkErr
     THEN /\ results' = <<>>
          /\ truncated' = FALSE
          /\ err' = TRUE
          /\ matches' = matches
     ELSE /\ \E sorted \in SortOutcomes(matches) :
               /\ matches' = Cut(sorted, limit)
               /\ results' = PathsOf(Cut(sorted, limit))
          /\ truncated' = IsTruncated(limit, Len(matches))
          /\ err' = FALSE
  /\ phase' = "done"
  /\ UNCHANGED <<args, gitignore, queue, wk, mu, walkErr, recorded>>

\* the same search is run once more against the unchanged filesystem
Again ==
  /\ phase = "done"
  /\ run = 1
  /\ run' = 2
  /\ first' = [paths |-> results, truncated |-> truncated, err |-> err]
  /\ phase' = "start"
  /\ gitignore' = Nil
  /\ queue' = {}
  /\ wk' = [w \in Workers |-> Idle]
  /\ mu' = 0
  /\ walkErr' = FALSE
  /\ matches' = <<>>
  /\ collected' = <<>>
  /\ recorded' = 0
  /\ results' = <<>>
  /\ truncated' = FALSE
  /\ err' = FALSE
  /\ UNCHANGED <<pattern, searchPath, limit, segs, skipped>>

Next ==
  \/ Start
  \/ \E w \in Workers : TakeWork(w)
  \/ \E w \in Workers : Lock1(w)
  \/ \E w \in Workers : Check(w)
  \/ \E w \in Workers : ReadDir(w)
  \/ \E w \in Workers : NextEntry(w)
  \/ \E w \in Workers : Lock2(w)
  \/ \E w \in Workers : AppendMatch(w)
  \/ WalkDone
  \/ \E w \in Workers : Exit(w)
  \/ Finish

Spec == Init /\ [][Next]_vars

\* the goroutines of the walk and the caller are scheduled: a step that stays
\* possible is eventually taken
SpecFair == Init /\ [][Next]_vars /\ WF_vars(Next)

\* the segments of the paths SkipHidden is called with on its own: empty,
\* ".", "..", hidden names, plain names, ignored names, and names that only
\* contain an ignored name or differ from it in case
Segments ==
  { <<>>, Dot, <<".", ".">>, DotX, DotGit, <<"a">>, Tmp,
    <<"t","m","p","x">>, <<"T","m","p">> }

SegmentLists == UNION {[1..n -> Segments] : n \in 1..MaxSegs}

InitSkipHidden ==
  /\ segs \in SegmentLists
  /\ skipped = NotCalled
  /\ pattern = StarTxt
  /\ searchPath = NoDir
  /\ limit = 0
  /\ gitignore = Nil
  /\ phase = "none"
  /\ queue = {}
  /\ wk = [w \in Workers |-> Exited]
  /\ mu = 0
  /\ walkErr = FALSE
  /\ matches = <<>>
  /\ collected = <<>>
  /\ recorded = 0
  /\ results = <<>>
  /\ truncated = FALSE
  /\ err = FALSE
  /\ run = 1
  /\ first = NoResult

\* lines 38-75: SkipHidden(path) is called and returns
CallSkipHidden ==
  /\ ~skipped.called
  /\ segs # <<>>
  /\ skipped' = [called |-> TRUE, value |-> SkipHidden(JoinAll(segs))]
  /\ UNCHANGED <<pattern, searchPath, limit, run, first, segs, gitignore, phase,
                 queue, wk, mu, walkErr, matches, collected, recorded, results,
                 truncated, err>>

\* SkipHidden called on its own with a path made of up to MaxSegs segments
SpecSkipHidden == InitSkipHidden /\ [][CallSkipHidden]_vars

\* the search run twice
NextTwice == Next \/ Again

SpecTwice == Init /\ [][NextTwice]_vars

\* ------------------------------------------------------------------------
\* What the properties speak of
\* ------------------------------------------------------------------------

Done == phase = "done"

\* the modification time of the file at a path
MTime(path) == Entry(path).modTime

\* path lies below root
Under(root, path) == IsPrefix(root \o <<Sep>>, path)

\* the directories from root down to the parent of path
Ancestors(root, path) ==
  {d \in Paths : (d = root \/ Under(root, d)) /\ Under(d, path)}

\* a file of the tree below root that is not skipped, is reached without
\* crossing a skipped directory or one that cannot be listed, matches the
\* pattern and has readable metadata
Qualifies(root, pat, gi, path) ==
  /\ Under(root, path)
  /\ ~Entry(path).isDir
  /\ \A d \in Ancestors(root, path) : ~shouldSkip(d, root, gi) /\ ~Faulty(d, "readdir")
  /\ ~shouldSkip(path, root, gi)
  /\ PatternMatches(pat, root, path)
  /\ ~Faulty(path, "info")

Qualifying == {p \in Paths : Qualifies(searchPath, pattern, NewFastGlobWalker(searchPath), p)}

\* some entry at or below root cannot be accessed
HasFault(root) == \E e \in FS : (e.path = root \/ Under(root, e.path)) /\ e.fault # "none"

\* the candidate list sorted newest first, ties in the order of the list
RECURSIVE StableSort(_)
StableSort(s) ==
  IF Len(s) = 0 THEN <<>>
  ELSE LET t == StableSort(SubSeq(s, 1, Len(s) - 1))
           x == s[Len(s)]
           k == Cardinality({i \in 1..Len(t) : t[i].ModTime >= x.ModTime})
       IN  SubSeq(t, 1, k) \o <<x>> \o SubSeq(t, k + 1, Len(t))

\* two results hold the same files, but for the choice among files of equal
\* modification time
SameUpToTies(r1, r2) ==
  /\ Len(r1) = Len(r2)
  /\ \A i \in 1..Len(r1) : MTime(r1[i]) = MTime(r2[i])
  /\ \A i \in 1..Len(r1) :
       (MTime(r1[i]) > MTime(r1[Len(r1)])) => (r1[i] \in Range(r2))

\* ------------------------------------------------------------------------
\* Properties
\* ------------------------------------------------------------------------

\* C1: a search with limit > 0 that returns without error returns at most
\* limit paths, whatever the workers' interleaving.
C1_AtMostLimit == (Done /\ ~err /\ limit > 0) => Len(results) <= limit

\* C1 witness: workers appended more than 2*limit candidates and exactly limit
\* paths were returned.
C1_Witness == Done /\ ~err /\ limit > 0 /\ Len(collected) > 2 * limit /\ Len(results) = limit

\* C2: with limit > 0 and no error, truncated is true exactly when the candidate
\* list held more than limit entries when ranking started.
C2_TruncatedIffCollectedExceeds ==
  (Done /\ ~err /\ limit > 0) => (truncated <=> (Len(collected) > limit))

\* C2 witness: a search that collected exactly limit candidates and one that
\* would be cut cannot be told apart by the result length alone; here the list
\* held exactly limit entries and nothing was reported cut.
C2_Witness == Done /\ ~err /\ limit > 0 /\ Len(collected) = limit /\ ~truncated

\* C3: with limit > 0 on a tree without inaccessible entries, truncated is true
\* exactly when the tree holds more qualifying files than were returned; the
\* stop at 2*limit candidates never hides that more exist.
C3_TruncatedIffMoreQualify ==
  (Done /\ ~err /\ limit > 0 /\ ~HasFault(searchPath))
    => (truncated <=> (Cardinality(Qualifying) > Len(results)))

\* C3 witness: the walk stopped early, with qualifying files never collected,
\* and the result is reported cut.
C3_Witness ==
  /\ Done /\ ~err /\ limit > 0 /\ ~HasFault(searchPath)
  /\ Len(collected) < Cardinality(Qualifying)
  /\ truncated

C5_NewestFirst ==
  Done => \A i \in 1..(Len(results) - 1) : MTime(results[i]) >= MTime(results[i + 1])

\* C5 witness: the workers appended an older file before a newer one, and both
\* were returned.
C5_Witness ==
  /\ Done
  /\ \E i, j \in 1..Len(collected) :
       /\ i < j
       /\ collected[i].ModTime < collected[j].ModTime
       /\ {collected[i].Path, collected[j].Path} \subseteq Range(results)

C7_OnlyMatchingUnskippedFiles ==
  \A p \in Range(PathsOf(matches)) \cup Range(results) :
    /\ ~Entry(p).isDir
    /\ ~shouldSkip(p, searchPath, gitignore)
    /\ PatternMatches(pattern, searchPath, p)

\* C7 witness: paths were returned from a tree that also holds a file the
\* pattern matches and shouldSkip skips, and a directory that is walked.
C7_Witness ==
  /\ Done /\ Len(results) > 0
  /\ \E p \in Paths :
       /\ Under(searchPath, p) /\ ~Entry(p).isDir
       /\ PatternMatches(pattern, searchPath, p)
       /\ Parent(p) = searchPath
       /\ shouldSkip(p, searchPath, gitignore)
       /\ p \notin Range(results)

\* C8 as stated: a root that does not exist or cannot be listed makes the
\* search return an error, no paths and truncated = false.
C8_RootFailureIsError ==
  (Done /\ (~Exists(searchPath) \/ Faulty(searchPath, "readdir")))
     => (err /\ results = <<>> /\ ~truncated)

\* C9: an error is returned only when the root cannot be stat'ed; an entry that
\* cannot be accessed, a failed match or the stop signal never makes the search
\* fail, and unless the walk was stopped at the threshold every accessible
\* qualifying file is recorded.
C9_OnlyStartErrorPropagates ==
  Done =>
    /\ err => ~Exists(searchPath)
    /\ (~err /\ (limit <= 0 \/ Len(collected) < 2 * limit))
         => Range(PathsOf(collected)) = Qualifying

\* C9 witness: in the tree with inaccessible entries, a file found after them
\* was returned and no error was.
C9_Witness ==
  /\ Done /\ ~err /\ HasFault(searchPath)
  /\ \E i \in 1..Len(results) : Len(Split(results[i])) > 2

\* C10 as stated: two searches with the same arguments on the unchanged tree
\* return the same paths, ties aside, and the same truncated flag.
C10_Idempotent ==
  (Done /\ run = 2) =>
    (truncated = first.truncated /\ SameUpToTies(results, first.paths))

\* C10 amended: the two searches agree on the error and on the truncated flag;
\* they agree on the paths, ties aside, when limit <= 0 or at most 2*limit
\* files qualify.
C10_IdempotentWithinThreshold ==
  (Done /\ run = 2) =>
    /\ err = first.err
    /\ truncated = first.truncated
    /\ (limit <= 0 \/ Cardinality(Qualifying) <= 2 * limit)
         => SameUpToTies(results, first.paths)

\* C10 witness: a repeated search with a positive limit, cut, on a tree whose
\* qualifying files all fit under the threshold.
C10_Witness ==
  /\ Done /\ run = 2 /\ limit > 0 /\ truncated
  /\ Cardinality(Qualifying) <= 2 * limit
  /\ Len(results) > 0

\* ------------------------------------------------------------------------
\* The scenario of two text files and a .git directory
\* ------------------------------------------------------------------------

\* the scenario's request: root sc holds a.txt (mtime 1), b.txt (mtime 2)
\* and .git/c.txt; pattern "*.txt", limit 1
Scenario == searchPath = Sc /\ pattern = StarTxt /\ limit = 1

NoUsableGitignore ==
  LET gitignorePath == Join(searchPath, DotGitignore)
  IN  ~Exists(gitignorePath) \/ Faulty(gitignorePath, "read")

\* C12: when no .gitignore exists directly under the root, or it exists but
\* fails to compile, the walker's ignore index is absent, shouldSkip equals
\* SkipHidden on every path, and the search of an existing root returns
\* without error.
C12_AbsentIndexNeverFails ==
  (phase # "start" /\ NoUsableGitignore) =>
    /\ gitignore = Nil
    /\ \A p \in Paths : shouldSkip(p, searchPath, gitignore) = SkipHidden(p)
    /\ (Done /\ Exists(searchPath)) => ~err

\* a search under a root whose .gitignore cannot be compiled returns a file
\* that a line of that .gitignore names
C12_Witness ==
  /\ Done /\ ~err
  /\ Exists(Join(searchPath, DotGitignore))
  /\ NoUsableGitignore
  /\ \E i \in 1..Len(results) :
       LET r == Rel(searchPath, results[i])
       IN  ~r.err /\ MatchesPath([present |-> TRUE,
                                  lines |-> GitignoreLines(Join(searchPath, DotGitignore))],
                                 r.rel)

\* ------------------------------------------------------------------------
\* The size of the candidate list
\* ------------------------------------------------------------------------

\* C13: for limit > 0 the candidate list never holds more than 2*limit
\* entries in any state before the ranking.
C13_NeverAboveThreshold ==
  (limit > 0 /\ phase \in {"walk", "stop"}) => Len(matches) <= 2 * limit

\* C13 (amended): for limit > 0 the candidate list holds fewer than 2*limit
\* entries as long as the walk has not been told to stop, and a worker whose
\* append brought the count to 2*limit or above has left its directory;
\* appends of other workers that were already under way can still follow.
C13_StopAtThreshold ==
  (limit > 0 /\ phase \in {"walk", "stop"}) =>
    /\ phase = "walk" => Len(matches) < 2 * limit
    /\ \A w \in Workers : \A i \in (2 * limit)..Len(matches) :
         wk[w].cur # matches[i].Path

\* the candidate list has grown past the threshold while a worker is back
\* from such an append
C13_Witness ==
  /\ limit > 0 /\ phase = "stop"
  /\ Len(matches) > 2 * limit
  /\ \E w \in Workers : wk[w].pc = "idle"

\* ------------------------------------------------------------------------
\* Pruning
\* ------------------------------------------------------------------------

\* some directory from the root down to the parent of path is skipped
PrunedAbove(path) ==
  \E d \in Ancestors(searchPath, path) : shouldSkip(d, searchPath, gitignore)

\* C14: a directory for which shouldSkip is true is pruned: no worker lists
\* it, no entry beneath it is handed to a worker or to the callback, and no
\* candidate or returned path has an ancestor at or below the root for which
\* shouldSkip is true, also when the file's own name is not hidden.
C14_PrunedSubtreeNeverEntered ==
  phase # "start" =>
    /\ \A w \in Workers : wk[w].pc \notin {"idle", "exited"} =>
         /\ ~PrunedAbove(wk[w].cur)
         /\ wk[w].pc \in {"readdir", "next"} =>
              ~shouldSkip(wk[w].dir, searchPath, gitignore)
    /\ \A d \in queue : ~PrunedAbove(d)
    /\ \A i \in 1..Len(matches) : ~PrunedAbove(matches[i].Path)
    /\ \A i \in 1..Len(results) : ~PrunedAbove(results[i])

\* an unlimited search has returned files, and a file that matches the
\* pattern and is not itself skipped lies in a skipped directory and is not
\* returned
C14_Witness ==
  /\ Done /\ ~err /\ limit <= 0 /\ Len(results) > 0
  /\ \E p \in Paths :
       /\ Under(searchPath, p) /\ ~Entry(p).isDir
       /\ ~shouldSkip(p, searchPath, gitignore)
       /\ PatternMatches(pattern, searchPath, p)
       /\ PrunedAbove(p)
       /\ p \notin Range(results)

\* ------------------------------------------------------------------------
\* The mutex
\* ------------------------------------------------------------------------

\* the workers inside a section guarded by mu: shouldSkip (lines 131-133 and
\* 140-142) or the append with the threshold test (lines 163-169)
InCritical == {w \in Workers : wk[w].pc \in {"check", "append"}}

\* C15: a callback appends to the candidate list and tests the threshold
\* only while its worker holds the mutex, at most one worker is inside a
\* guarded section at a time, and no append is lost: the candidate list has
\* one entry per append made, up to and at the start of the ranking.
C15_AppendsUnderMutex ==
  /\ mu \in {0} \cup Workers
  /\ \A w \in Workers : (w \in InCritical) <=> (mu = w)
  /\ Cardinality(InCritical) <= 1
  /\ phase \in {"walk", "stop"} => Len(matches) = recorded
  /\ Done => Len(collected) = recorded

\* a worker is about to append under the mutex while another worker with a
\* match of its own waits for it, after an earlier append
C15_Witness ==
  \E w1, w2 \in Workers :
    /\ w1 # w2
    /\ wk[w1].pc = "append" /\ mu = w1
    /\ wk[w2].pc = "lock2"
    /\ recorded > 0

\* ------------------------------------------------------------------------
\* Collection before ranking
\* ------------------------------------------------------------------------

C17_EventuallyReturns ==
  /\ <>Done
  /\ [](\A w \in Workers : mu = w => wk[w].pc \in {"check", "append"})

\* a worker waits for the mutex that another worker holds for shouldSkip,
\* after the walk has been told to stop
C17_Witness ==
  \E w1, w2 \in Workers :
    /\ w1 # w2
    /\ phase = "stop"
    /\ wk[w1].pc = "lock1"
    /\ wk[w2].pc = "check" /\ mu = w2

\* ------------------------------------------------------------------------
\* SkipHidden by segments
\* ------------------------------------------------------------------------

NotEmpty(seg) == seg # <<>>

\* the last segment of the path; a trailing separator ends the last segment
\* and does not start an empty one
LastSegment ==
  LET named == SelectSeq(segs, NotEmpty)
  IN  IF Len(named) = 0 THEN <<>> ELSE named[Len(named)]

\* C18: SkipHidden(path) is true exactly when the last segment of the path is
\* not "." and starts with a dot, or some segment of the path is equal to a
\* name of the fixed ignored set; a dot-prefixed segment that is not the last
\* one and a segment that only contains an ignored name do not make it true.
C18_SkipHiddenBySegments ==
  skipped.called =>
    (skipped.value <=>
       \/ LastSegment # Dot /\ HasDotPrefix(LastSegment)
       \/ \E i \in 1..Len(segs) : segs[i] \in commonIgnoredDirs)

\* SkipHidden has returned false for a path with a dot-prefixed segment
\* before the last one and a segment that contains an ignored name
C18_Witness ==
  /\ skipped.called /\ ~skipped.value
  /\ \E i \in 1..(Len(segs) - 1) : segs[i] # Dot /\ HasDotPrefix(segs[i])
  /\ \E i \in 1..Len(segs) : segs[i] = Tmp \o <<"x">>

\* ------------------------------------------------------------------------
\* Exactness within the threshold
\* ------------------------------------------------------------------------

\* C19: for limit > 0, when the tree holds at most 2*limit qualifying files
\* and no entry fails, every qualifying file is collected and the result is
\* exactly the min(limit, total) newest qualifying files, newest first, but
\* for the choice among files of equal modification time.
C19_ExactWithinThreshold ==
  (/\ Done /\ ~err /\ limit > 0
   /\ ~HasFault(searchPath)
   /\ Cardinality(Qualifying) <= 2 * limit) =>
    /\ Range(PathsOf(collected)) = Qualifying
    /\ Len(collected) = Cardinality(Qualifying)
    /\ Len(results) = IF Cardinality(Qualifying) < limit
                      THEN Cardinality(Qualifying) ELSE limit
    /\ Range(results) \subseteq Qualifying
    /\ Cardinality(Range(results)) = Len(results)
    /\ \A i, j \in 1..Len(results) : i < j => MTime(results[i]) >= MTime(results[j])
    /\ \A q \in Qualifying \ Range(results) :
         \A r \in Range(results) : MTime(q) <= MTime(r)

\* a tree with more than limit and at most 2*limit qualifying files in more
\* than one directory: the result is cut to limit
C19_Witness ==
  /\ Done /\ ~err /\ limit > 0
  /\ ~HasFault(searchPath)
  /\ Cardinality(Qualifying) <= 2 * limit
  /\ truncated
  /\ Len(results) = limit
  /\ \E p, q \in Qualifying : Parent(p) # Parent(q)

\* ------------------------------------------------------------------------
\* The names of the root's own segments
\* ------------------------------------------------------------------------

\* the skip decision taken on the segments of the path below the root only
SkippedBelow(root, gi, p) ==
  LET r == Rel(root, p)
  IN  /\ ~r.err
      /\ \/ SkipHidden(r.rel)
         \/ gi.present /\ MatchesPath(gi, r.rel)

\* the files that qualify when only the segments below the root count
QualifyingBelow ==
  LET gi == NewFastGlobWalker(searchPath)
  IN  {p \in Paths :
         /\ Under(searchPath, p)
         /\ ~Entry(p).isDir
         /\ \A d \in Ancestors(searchPath, p) :
              ~SkippedBelow(searchPath, gi, d) /\ ~Faulty(d, "readdir")
         /\ ~SkippedBelow(searchPath, gi, p)
         /\ PatternMatches(pattern, searchPath, p)
         /\ ~Faulty(p, "info")}

\* C20: whether an entry is skipped depends only on the segments of its path
\* below the root: an unlimited search of an existing, listable root returns
\* without error exactly the files that qualify by the segments below the
\* root, whatever the names of the root path's own segments are.
C20_RootNamesDoNotMatter ==
  (Done /\ limit <= 0 /\ Exists(searchPath) /\ ~Faulty(searchPath, "readdir")) =>
    /\ ~err
    /\ Range(results) = QualifyingBelow

====
